---- MODULE Spec2Model ----
(***************************************************************************)
(* Model of the zero-coupon curve builder (rates.py, class ZCBBuilder) and *)
(* of the present-value step of the valuation driver (mvl.py, main).       *)
(*                                                                         *)
(* Numbers.  The program computes in IEEE-754 doubles (numpy.float64).     *)
(* The model computes in exact rationals extended with the three special   *)
(* values of the doubles that the program can produce: a number is a pair  *)
(* <<n, d>>:  d > 0 is the rational n/d in lowest terms, <<0, 0>> is NaN,  *)
(* <<1, 0>> is +inf and <<-1, 0>> is -inf.  numpy does not raise on a      *)
(* division by zero or on a negative base of a fractional power (it warns  *)
(* and yields inf / NaN), so these values flow through the program.        *)
(* Rounding is not modelled.  The sign of a zero is not modelled: the only *)
(* zero divisor the program forms is 1 + coupon, which is +0.0.            *)
(***************************************************************************)
EXTENDS Integers, Sequences, FiniteSets, TLC

VARIABLES args, input_df, curve_df, zcb, i, pc, out_df

vars == <<args, input_df, curve_df, zcb, i, pc, out_df>>

-----------------------------------------------------------------------------
(* Bounds of the model *)

\* longest tenor (months) of a quote
MaxTenor == 3
\* largest number of quotes handed to the builder
MaxQuotes == 2
\* largest projection month t of the driver's loop
MaxProj == 1

-----------------------------------------------------------------------------
(* Extended rational arithmetic (float64 semantics without rounding) *)

NaN == <<0, 0>>
PosInf == <<1, 0>>
NegInf == <<-1, 0>>
Zero == <<0, 1>>
One == <<1, 1>>

Abs(n) == IF n < 0 THEN -n ELSE n
Sgn(n) == IF n < 0 THEN -1 ELSE IF n > 0 THEN 1 ELSE 0

RECURSIVE GCD(_, _)
GCD(a, b) == IF b = 0 THEN a ELSE GCD(b, a % b)

\* the rational n/d, d # 0, in lowest terms with a positive denominator
Norm(n, d) ==
    LET g == GCD(Abs(n), Abs(d))
        s == Sgn(d)
    IN  <<(s * n) \div g, (s * d) \div g>>

Num(n) == <<n, 1>>
IsNaN(x) == x = NaN
IsFinite(x) == x[2] > 0
IsInf(x) == x[2] = 0 /\ x[1] # 0

Add(x, y) ==
    IF IsNaN(x) \/ IsNaN(y) THEN NaN
    ELSE IF IsFinite(x) /\ IsFinite(y)
         THEN LET g == GCD(x[2], y[2])
              IN  Norm(x[1] * (y[2] \div g) + y[1] * (x[2] \div g),
                       x[2] * (y[2] \div g))
    ELSE IF IsInf(x) /\ IsInf(y) THEN (IF x = y THEN x ELSE NaN)
    ELSE IF IsInf(x) THEN x ELSE y

Neg(x) == <<-x[1], x[2]>>

Sub(x, y) == Add(x, Neg(y))

Mul(x, y) ==
    IF IsNaN(x) \/ IsNaN(y) THEN NaN
    ELSE IF IsFinite(x) /\ IsFinite(y)
         THEN LET a == Norm(x[1], y[2])
                  b == Norm(y[1], x[2])
              IN  <<a[1] * b[1], a[2] * b[2]>>
    ELSE IF Sgn(x[1]) * Sgn(y[1]) = 0 THEN NaN
    ELSE <<Sgn(x[1]) * Sgn(y[1]), 0>>

\* x / y as numpy divides: x/0 is +-inf by the sign of x, 0/0 is NaN
Div(x, y) ==
    IF IsNaN(x) \/ IsNaN(y) THEN NaN
    ELSE IF IsInf(y)
         THEN (IF IsInf(x) THEN NaN ELSE Zero)
    ELSE IF y[1] = 0
         THEN (IF x[1] = 0 THEN NaN ELSE <<Sgn(x[1]), 0>>)
    ELSE IF IsInf(x) THEN <<Sgn(x[1]) * Sgn(y[1]), 0>>
    ELSE Mul(x, Norm(y[2], y[1]))

\* x < y; every comparison with NaN is false
Less(x, y) ==
    IF IsNaN(x) \/ IsNaN(y) THEN FALSE
    ELSE IF IsFinite(x) /\ IsFinite(y) THEN x[1] * y[2] < y[1] * x[2]
    ELSE IF IsInf(x) /\ IsInf(y) THEN x[1] < y[1]
    ELSE IF IsInf(x) THEN x[1] < 0
    ELSE y[1] > 0

Leq(x, y) == ~IsNaN(x) /\ ~IsNaN(y) /\ ~Less(y, x)

\* Python's max(a, b): b when b > a, else a (so max(nan, b) is nan)
PyMax(a, b) == IF Less(a, b) THEN b ELSE a

Pow6(x) ==
    LET n == x[1] * x[1] * x[1] * x[1] * x[1] * x[1]
        d == x[2] * x[2] * x[2] * x[2] * x[2] * x[2]
    IN  <<n, d>>

\* the monthly growth factors whose sixth powers the model's yields are built on
Roots == {Zero, <<1, 2>>, One, Num(2), Num(3)}

\* x ** (1/6): NaN for a negative base, else the sixth root
Root6(x) ==
    IF IsNaN(x) \/ Less(x, Zero) THEN NaN
    ELSE CHOOSE r \in Roots : Pow6(r) = x

-----------------------------------------------------------------------------
(* rates.py: ZCBBuilder *)

\* the floor of a discount factor, the literal 0.01 of bootstrap_monthly_zcb
Floor == <<1, 100>>

\* 1200 * ((1 + bey / 200) ** (1/6) - 1)
convert_bey_to_ac(bey) ==
    Mul(Num(1200), Sub(Root6(Add(One, Div(bey, Num(200)))), One))

\* __init__: the frame of the two argument lists, with the converted column
NewInputDf(a) ==
    [k \in 1..Len(a) |->
        [MTHS |-> a[k][1],
         PAR_YIELD_BEY |-> a[k][2],
         PAR_YIELD_AC |-> convert_bey_to_ac(a[k][2])]]

\* input_df['MTHS'].max() of a non-empty frame
MaxMths(df) ==
    CHOOSE m \in {df[k].MTHS : k \in 1..Len(df)} :
        \A k \in 1..Len(df) : df[k].MTHS <= m

\* MergeRows as an inner join would give them: no row for an unquoted month
MergeRows_inner(m, df) ==
    LET Match(r) == r.MTHS = m
        hit == SelectSeq(df, Match)
    IN  [k \in 1..Len(hit) |->
            [MTHS |-> m, PAR_YIELD_AC |-> hit[k].PAR_YIELD_AC]]

\* the rows a left merge on MTHS gives month m: one per matching quote, in the
\* quotes' order, or a single row with a missing yield when no quote matches
MergeRows(m, df) ==
    LET Match(r) == r.MTHS = m
        hit == SelectSeq(df, Match)
    IN  IF hit = <<>>
        THEN <<[MTHS |-> m, PAR_YIELD_AC |-> NaN]>>
        ELSE [k \in 1..Len(hit) |->
                 [MTHS |-> m, PAR_YIELD_AC |-> hit[k].PAR_YIELD_AC]]

RECURSIVE MergeLeft(_, _, _)
\* curve.merge(input_df[['MTHS', 'PAR_YIELD_AC']], how='left', on='MTHS') for
\* the months m..last of np.arange(0, max + 1)
MergeLeft(m, last, df) ==
    IF m > last THEN <<>>
    ELSE MergeRows(m, df) \o MergeLeft(m + 1, last, df)

\* InterpAt as a forward fill: a missing value repeats the value before it
InterpAt_ffill(v, k) ==
    LET before == {p \in 1..(k - 1) : ~IsNaN(v[p])}
    IN  IF ~IsNaN(v[k]) THEN v[k]
        ELSE IF before = {} THEN NaN
        ELSE v[CHOOSE x \in before : \A y \in before : y <= x]

\* Series.interpolate(method='linear') at row k of the values v: rows are
\* equally spaced, a missing value between two values lies on their line, a
\* missing value after the last value repeats it, and a missing value before
\* the first value stays missing (limit_direction is 'forward')
InterpAt(v, k) ==
    LET before == {p \in 1..(k - 1) : ~IsNaN(v[p])}
        after == {n \in (k + 1)..Len(v) : ~IsNaN(v[n])}
    IN  IF ~IsNaN(v[k]) THEN v[k]
        ELSE IF before = {} THEN NaN
        ELSE LET p == CHOOSE x \in before : \A y \in before : y <= x
             IN  IF after = {} THEN v[p]
                 ELSE LET n == CHOOSE x \in after : \A y \in after : x <= y
                      IN  Add(v[p], Div(Mul(Sub(v[n], v[p]), Num(k - p)),
                                        Num(n - p)))

\* interpolate_monthly_par_curve: the bfill().ffill() of line 22 is computed
\* and dropped, so the returned column is the interpolated one
InterpolatedCurve(df) ==
    LET merged == MergeLeft(0, MaxMths(df), df)
        v == [k \in 1..Len(merged) |-> merged[k].PAR_YIELD_AC]
    IN  [k \in 1..Len(merged) |->
            [MTHS |-> merged[k].MTHS, INTERP_PAR_YIELD |-> InterpAt(v, k)]]

\* InitialZcb as the loop would give it were it to start at row 0
InitialZcb_fromYield(df) ==
    <<PyMax(Div(One, Add(One, Div(df[1].INTERP_PAR_YIELD, Num(1200)))), Floor)>>

\* zcb = [1.0]
InitialZcb(df) == <<One>>

RECURSIVE DiscountedCoupons_fromZero(_, _, _, _)
\* DiscountedCoupons with the sum over range(from - 1, to): Z(0) is included
DiscountedCoupons_fromZero(coupon, z, from, to) ==
    IF from > to THEN Zero
    ELSE Add(DiscountedCoupons_fromZero(coupon, z, from, to - 1),
             Mul(coupon, z[to]))

RECURSIVE DiscountedCoupons(_, _, _, _)
\* sum(coupon * zcb[j] for j in range(from, to)); zcb[j] of the program is
\* z[j + 1] here, and the sum starts from the integer 0
DiscountedCoupons(coupon, z, from, to) ==
    IF from >= to THEN Zero
    ELSE Add(DiscountedCoupons(coupon, z, from, to - 1),
             Mul(coupon, z[to]))

\* the body of the loop of bootstrap_monthly_zcb for row label n
NextZcb(df, z, n) ==
    LET c == df[n + 1].INTERP_PAR_YIELD
        coupon == Div(c, Num(1200))
        discounted_coupons == DiscountedCoupons(coupon, z, 1, n)
        z_i == Div(Sub(One, discounted_coupons), Add(One, coupon))
    IN  PyMax(z_i, Floor)

-----------------------------------------------------------------------------
(* mvl.py: the present value of one (projection month, deal) pair *)

\* the cash flows of the deals: remaining months at t = 0 and net cash flow
Deals ==
    {<<[MONTHS |-> 1, NET_CF |-> 10], [MONTHS |-> 2, NET_CF |-> -4]>>,
     <<[MONTHS |-> 1, NET_CF |-> 7], [MONTHS |-> 6, NET_CF |-> 5]>>}

\* deal_df['MONTHS'] = deal_df['MONTHS'] - t; deal_df = deal_df[MONTHS > 0]
DealDf(deal, t) ==
    LET shifted == [k \in 1..Len(deal) |->
                       [MONTHS |-> deal[k].MONTHS - t, NET_CF |-> deal[k].NET_CF]]
        Keep(r) == r.MONTHS > 0
    IN  SelectSeq(shifted, Keep)

\* the MTHS column is a unique index
UniqueIndex(df) ==
    \A a, b \in 1..Len(df) : df[a].MTHS = df[b].MTHS => a = b

\* Series.map(zcb_df.set_index('MTHS')['FLOOR_ZCB']) for one month: the factor
\* of that month, or a missing value when the month is not in the index
MapMonth(df, m) ==
    IF \E k \in 1..Len(df) : df[k].MTHS = m
    THEN df[CHOOSE k \in 1..Len(df) : df[k].MTHS = m].FLOOR_ZCB
    ELSE NaN

RECURSIVE SumSkipNa(_, _)
\* Series.sum() of the first n values: missing values are skipped
SumSkipNa(s, n) ==
    IF n = 0 THEN Zero
    ELSE IF IsNaN(s[n]) THEN SumSkipNa(s, n - 1)
    ELSE Add(SumSkipNa(s, n - 1), s[n])

\* (deal_df['NET_CF'] * deal_df['MONTHS'].map(...)).sum()
PresentValue(df, ddf) ==
    LET prod == [k \in 1..Len(ddf) |->
                    Mul(Num(ddf[k].NET_CF), MapMonth(df, ddf[k].MONTHS))]
    IN  SumSkipNa(prod, Len(prod))

-----------------------------------------------------------------------------
(* The inputs *)

\* bond-equivalent yields, in percentage points: below the domain of the
\* conversion, on its boundary, negative, zero and positive
BeyValues ==
    {Num(-400), Num(-200), <<-1575, 8>>, Zero, Num(12600), Num(145600)}

Quotes == (0..MaxTenor) \X BeyValues

RECURSIVE SeqsUpTo(_, _)
SeqsUpTo(S, n) ==
    IF n = 0 THEN {<<>>}
    ELSE LET shorter == SeqsUpTo(S, n - 1)
         IN  shorter \cup {Append(s, x) : s \in {t \in shorter : Len(t) = n - 1}, x \in S}

-----------------------------------------------------------------------------
(* The state machine *)

Init ==
    /\ args \in SeqsUpTo(Quotes, MaxQuotes)
    /\ input_df = <<>>
    /\ curve_df = <<>>
    /\ zcb = <<>>
    /\ i = 0
    /\ pc = "new"
    /\ out_df = <<>>

\* ZCBBuilder(tenor_mths, par_yield_bey)
Construct ==
    /\ pc = "new"
    /\ input_df' = NewInputDf(args)
    /\ pc' = "constructed"
    /\ UNCHANGED <<args, curve_df, zcb, i, out_df>>

\* run(): interpolate_monthly_par_curve(); np.arange raises on the missing
\* maximum of an empty frame
Interpolate ==
    /\ pc = "constructed"
    /\ IF input_df = <<>>
       THEN /\ pc' = "error"
            /\ UNCHANGED curve_df
       ELSE /\ curve_df' = InterpolatedCurve(input_df)
            /\ pc' = "interpolated"
    /\ UNCHANGED <<args, input_df, zcb, i, out_df>>

\* bootstrap_monthly_zcb: zcb = [1.0] and the first value of the loop variable
BootstrapStart ==
    /\ pc = "interpolated"
    /\ zcb' = InitialZcb(curve_df)
    /\ i' = 1
    /\ pc' = "loop"
    /\ UNCHANGED <<args, input_df, curve_df, out_df>>

\* one pass of the loop over range(1, len(curve_df))
BootstrapStep ==
    /\ pc = "loop"
    /\ i < Len(curve_df)
    /\ zcb' = Append(zcb, NextZcb(curve_df, zcb, i))
    /\ i' = i + 1
    /\ UNCHANGED <<args, input_df, curve_df, pc, out_df>>

\* curve_df['FLOOR_ZCB'] = zcb, and the return of the frame through run()
BootstrapReturn ==
    /\ pc = "loop"
    /\ i >= Len(curve_df)
    /\ curve_df' = [k \in 1..Len(curve_df) |->
                       [MTHS |-> curve_df[k].MTHS,
                        INTERP_PAR_YIELD |-> curve_df[k].INTERP_PAR_YIELD,
                        FLOOR_ZCB |-> zcb[k]]]
    /\ pc' = "returned"
    /\ UNCHANGED <<args, input_df, zcb, i, out_df>>

\* main: the row of out_df for projection month t and one deal; the map raises
\* on an index that is not unique
DriverPV ==
    /\ pc = "returned"
    /\ \E t \in 0..MaxProj, deal \in Deals :
          IF UniqueIndex(curve_df)
          THEN /\ out_df' = Append(out_df,
                                   [DEAL |-> deal, T |-> t,
                                    PV |-> PresentValue(curve_df, DealDf(deal, t))])
               /\ pc' = "valued"
          ELSE /\ pc' = "error"
               /\ UNCHANGED out_df
    /\ UNCHANGED <<args, input_df, curve_df, zcb, i>>

Next ==
    \/ Construct
    \/ Interpolate
    \/ BootstrapStart
    \/ BootstrapStep
    \/ BootstrapReturn
    \/ DriverPV

Spec == Init /\ [][Next]_vars

-----------------------------------------------------------------------------
(* Vocabulary of the properties *)

UniqueTenors(a) == \A j, k \in 1..Len(a) : a[j][1] = a[k][1] => j = k

\* at least one quote, unique tenors, every yield above -200
ValidQuotes(a) ==
    /\ Len(a) >= 1
    /\ UniqueTenors(a)
    /\ \A k \in 1..Len(a) : Less(Num(-200), a[k][2])

LongestTenor(a) ==
    CHOOSE m \in {a[k][1] : k \in 1..Len(a)} : \A k \in 1..Len(a) : a[k][1] <= m

ShortestTenor(a) ==
    CHOOSE m \in {a[k][1] : k \in 1..Len(a)} : \A k \in 1..Len(a) : m <= a[k][1]

\* the interpolation has produced its frame
HasYields == curve_df # <<>>

\* run() has returned its frame
HasCurve == curve_df # <<>> /\ "FLOOR_ZCB" \in DOMAIN curve_df[1]

\* of the row with label m, which is month m when the tenors are unique
Yield(m) == curve_df[m + 1].INTERP_PAR_YIELD
Coupon(m) == Div(Yield(m), Num(1200))
Z(m) == zcb[m + 1]

RECURSIVE SumZ(_, _)
\* Z(a) + ... + Z(b)
SumZ(a, b) == IF a > b THEN Zero ELSE Add(SumZ(a, b - 1), Z(b))

\* (1 - c_m * (Z(1) + ... + Z(m-1))) / (1 + c_m)
Unfloored(m) ==
    Div(Sub(One, Mul(Coupon(m), SumZ(1, m - 1))), Add(One, Coupon(m)))

\* the floor replaced the value of month m
Clamped(m) == Less(Unfloored(m), Floor)

\* the larger of two numbers, undefined when one of them is
MaxOf(a, b) ==
    IF IsNaN(a) \/ IsNaN(b) THEN NaN ELSE IF Less(a, b) THEN b ELSE a

-----------------------------------------------------------------------------
(* The properties *)

\* C1: for every valid quote set, every discount factor of the returned curve
\* is a defined number between the floor 0.01 and 1.0.
C1_FloorRespected ==
    (HasCurve /\ ValidQuotes(args)) =>
        \A k \in 1..Len(curve_df) :
            /\ IsFinite(curve_df[k].FLOOR_ZCB)
            /\ Leq(Floor, curve_df[k].FLOOR_ZCB)
            /\ Leq(curve_df[k].FLOOR_ZCB, One)

\* C2: par pricing, on the curves of valid quote sets: for every month m >= 1
\* with no floor clamp at any month 1..m, c_m * (Z(1) + ... + Z(m)) + Z(m) = 1.
C2_ParPricing ==
    (HasCurve /\ ValidQuotes(args)) =>
        \A m \in 1..(Len(curve_df) - 1) :
            (\A k \in 1..m : ~Clamped(k)) =>
                Add(Mul(Coupon(m), SumZ(1, m)), Z(m)) = One

\* C3: for every valid quote set the interpolated yield of every month
\* 0..max(tenor) is defined, and every month before the shortest quoted tenor
\* carries the converted yield of the shortest quoted tenor.
C3_FlatExtrapolation ==
    (HasYields /\ ValidQuotes(args)) =>
        /\ Len(curve_df) = LongestTenor(args) + 1
        /\ \A m \in 0..LongestTenor(args) : IsFinite(Yield(m))
        /\ \A m \in 0..ShortestTenor(args) :
               \A k \in 1..Len(input_df) :
                   input_df[k].MTHS = ShortestTenor(args) =>
                       Yield(m) = input_df[k].PAR_YIELD_AC

\* C4: for quotes with unique tenors, given in any order, the interpolated
\* yield at a quoted tenor is that quote's converted yield, and between two
\* adjacent quoted tenors a < b it is ya + (yb - ya) * (m - a) / (b - a)
\* (wherever the converted yields are numbers).
C4_Interpolation ==
    (HasYields /\ UniqueTenors(args)) =>
        /\ \A k \in 1..Len(input_df) :
               IsFinite(input_df[k].PAR_YIELD_AC) =>
                   Yield(input_df[k].MTHS) = input_df[k].PAR_YIELD_AC
        /\ \A j, k \in 1..Len(input_df) :
               LET a == input_df[j].MTHS
                   b == input_df[k].MTHS
                   ya == input_df[j].PAR_YIELD_AC
                   yb == input_df[k].PAR_YIELD_AC
               IN  ( /\ a < b
                     /\ \A l \in 1..Len(input_df) :
                            ~(a < input_df[l].MTHS /\ input_df[l].MTHS < b)
                     /\ IsFinite(ya)
                     /\ IsFinite(yb) ) =>
                       \A m \in a..b :
                           Yield(m) = Add(ya, Div(Mul(Sub(yb, ya), Num(m - a)),
                                                  Num(b - a)))

\* C4 witness: two quotes given longest tenor first, at least two months apart,
\* with different yields, have been interpolated.
C4_Witness ==
    /\ HasYields
    /\ Len(args) = 2
    /\ args[1][1] >= args[2][1] + 2
    /\ IsFinite(input_df[1].PAR_YIELD_AC)
    /\ IsFinite(input_df[2].PAR_YIELD_AC)
    /\ input_df[1].PAR_YIELD_AC # input_df[2].PAR_YIELD_AC

\* C5: the returned curve's discount factor at month 0 is exactly 1.0,
\* whatever the yields.
C5_IdentityAtZero ==
    HasCurve => (curve_df[1].MTHS = 0 /\ curve_df[1].FLOOR_ZCB = One)

\* C5 witness: a curve of a valid quote set has been returned whose month-0
\* yield is undefined and where the floor clamped a later month.
C5_Witness ==
    /\ HasCurve
    /\ ValidQuotes(args)
    /\ IsNaN(Yield(0))
    /\ \E m \in 1..(Len(curve_df) - 1) : Clamped(m)

\* C6: for a non-empty quote set with unique tenors the returned MTHS column
\* is 0, 1, ..., max(tenor), and there is one discount factor per month.
C6_Contiguity ==
    (HasCurve /\ Len(args) >= 1 /\ UniqueTenors(args)) =>
        /\ Len(curve_df) = LongestTenor(args) + 1
        /\ \A k \in 1..Len(curve_df) : curve_df[k].MTHS = k - 1
        /\ Len(zcb) = LongestTenor(args) + 1

\* C6 witness: a curve has been returned for two quotes given longest tenor
\* first, with unquoted months between and before them.
C6_Witness ==
    /\ HasCurve
    /\ Len(args) = 2
    /\ args[1][1] >= args[2][1] + 2
    /\ args[2][1] >= 1

\* C7: an empty quote set, a repeated tenor or a yield <= -200 ends in an
\* error before any interpolation or bootstrap: no curve, no discount factor.
C7_Validation ==
    ~ValidQuotes(args) =>
        /\ curve_df = <<>>
        /\ zcb = <<>>
        /\ pc \in {"new", "constructed", "error"}

\* C8: no curve is returned that has a month m >= 1 with 1 + c_m = 0.
C8_Singularity ==
    HasCurve =>
        \A m \in 1..(Len(curve_df) - 1) : Add(One, Coupon(m)) # Zero

\* C9: a present value is never produced with a cash flow whose remaining
\* month offset is outside the months of the curve (stated for the curves of
\* valid quote sets).
C9_LookupError ==
    (pc = "valued" /\ ValidQuotes(args)) =>
        \A r \in 1..Len(out_df) :
            LET ddf == DealDf(out_df[r].DEAL, out_df[r].T)
            IN  \A k \in 1..Len(ddf) :
                    \E n \in 1..Len(curve_df) : curve_df[n].MTHS = ddf[k].MONTHS

\* C10: discount factors are stored in increasing month order, and every
\* stored Z(m), m >= 1, is max((1 - c_m * (Z(1) + ... + Z(m-1))) / (1 + c_m),
\* 0.01) over the stored, floored values of the earlier months, Z(0) excluded.
C10_Recursion ==
    /\ pc = "loop" => Len(zcb) = i
    /\ zcb # <<>> =>
           \A m \in 1..(Len(zcb) - 1) : Z(m) = MaxOf(Unfloored(m), Floor)

\* C10 witness: the curve of a valid quote set where the floor clamped a month
\* and a later month was computed from the clamped value.
C10_Witness ==
    /\ HasCurve
    /\ ValidQuotes(args)
    /\ \E k \in 1..(Len(zcb) - 2) :
           /\ Clamped(k)
           /\ Z(k) = Floor
           /\ IsFinite(Z(k + 1))

====
